---- MODULE Spec2Model ----
(***************************************************************************)
(* Model of app.py, the App Usage Dashboard: one Streamlit script that is  *)
(* re-run on every interaction.  The Analyze handler pages through the     *)
(* bucket listing, filters keys by extension, embedded date and customer   *)
(* segment, fetches and decodes every surviving object, tallies one report *)
(* token per request line, and stores the ranked table in session state.   *)
(*                                                                         *)
(* Text is modelled as a sequence of atoms.  An atom is either one         *)
(* character that the program inspects (a separator, a digit, a space, a   *)
(* quote) or a maximal run of letters, written as one TLA+ string.  Every  *)
(* string operation of the script (endswith, split, rsplit, strptime, the  *)
(* request-line regular expression) is computed on these sequences.        *)
(***************************************************************************)
EXTENDS Integers, Sequences, FiniteSets, TLC

\* ------------------------------------------------------------------ bounds
\* Largest number of objects the store holds.
MaxObjects == 2
\* Objects per listing page (S3 returns up to 1000; the page boundary is what matters).
PageSize == 1
\* Script runs with the Analyze button pressed, per behaviour (specification SpecSession).
MaxRuns == 2

\* ------------------------------------------------------- sequence helpers
Last(s) == s[Len(s)]

RECURSIVE Join(_, _)
\* The atoms of sep.join(parts).
Join(parts, sep) ==
  IF Len(parts) = 0 THEN <<>>
  ELSE IF Len(parts) = 1 THEN parts[1]
  ELSE parts[1] \o <<sep>> \o Join(Tail(parts), sep)

Digits == {"0", "1", "2", "3", "4", "5", "6", "7", "8", "9"}

DigitVal(c) ==
  CASE c = "0" -> 0 [] c = "1" -> 1 [] c = "2" -> 2 [] c = "3" -> 3 [] c = "4" -> 4
    [] c = "5" -> 5 [] c = "6" -> 6 [] c = "7" -> 7 [] c = "8" -> 8 [] c = "9" -> 9

\* ---------------------------------------------------- str methods (Python)
\* The positions of the separator atom sep in s, ascending.
SepPositions(s, sep) == {i \in 1..Len(s) : s[i] = sep}

RECURSIVE SplitAt(_, _, _)
\* s cut at the positions of cuts (a set of indices into s) that are >= from.
SplitAt(s, cuts, from) ==
  LET rest == {i \in cuts : i >= from} IN
  IF rest = {} THEN <<SubSeq(s, from, Len(s))>>
  ELSE LET i == CHOOSE x \in rest : \A y \in rest : x <= y
       IN <<SubSeq(s, from, i - 1)>> \o SplitAt(s, cuts, i + 1)

\* str.split(sep): cut at every occurrence of sep.
Split(s, sep) == SplitAt(s, SepPositions(s, sep), 1)

\* str.rsplit(sep, maxsplit): cut at the last maxsplit occurrences of sep.
RSplit(s, sep, maxsplit) ==
  LET all == SepPositions(s, sep)
      cuts == {i \in all : Cardinality({j \in all : j > i}) < maxsplit}
  IN SplitAt(s, cuts, 1)

\* str.endswith(".txt")
EndsWithTxt(key) ==
  /\ Len(key) >= 2
  /\ key[Len(key) - 1] = "."
  /\ key[Len(key)] = "txt"

\* ------------------------------------------------ datetime (Python stdlib)
\* The atom at position i, or "" past the end (no atom is the empty string).
At(t, i) == IF i >= 1 /\ i <= Len(t) THEN t[i] ELSE ""

NonZeroDigits == Digits \ {"0"}

\* %d is the alternation 3[0-1] | [1-2]\d | 0[1-9] | [1-9] | " "[1-9], tried in
\* that order at position p: the number of atoms it consumes, 0 for no match.
DayLen(t, p) ==
  IF \/ At(t, p) = "3" /\ At(t, p + 1) \in {"0", "1"}
     \/ At(t, p) \in {"1", "2"} /\ At(t, p + 1) \in Digits
     \/ At(t, p) = "0" /\ At(t, p + 1) \in NonZeroDigits
  THEN 2
  ELSE IF At(t, p) \in NonZeroDigits THEN 1
  ELSE IF At(t, p) = " " /\ At(t, p + 1) \in NonZeroDigits THEN 2
  ELSE 0

\* %m is the alternation 1[0-2] | 0[1-9] | [1-9]; the matcher keeps the first
\* alternative after which "-%d" matches too.  0 for no match.
MonthLen(t) ==
  IF /\ \/ At(t, 6) = "1" /\ At(t, 7) \in {"0", "1", "2"}
        \/ At(t, 6) = "0" /\ At(t, 7) \in NonZeroDigits
     /\ At(t, 8) = "-"
     /\ DayLen(t, 9) > 0
  THEN 2
  ELSE IF At(t, 6) \in NonZeroDigits /\ At(t, 7) = "-" /\ DayLen(t, 8) > 0 THEN 1
  ELSE 0

\* int() of the digits among t[from..to] (a leading space of %d is skipped).
RECURSIVE IntOf(_, _, _)
IntOf(t, from, to) ==
  IF from > to THEN 0
  ELSE IF t[to] \in Digits THEN 10 * IntOf(t, from, to - 1) + DigitVal(t[to])
  ELSE IntOf(t, from, to - 1)

IsLeap(y) == y % 4 = 0 /\ (y % 100 # 0 \/ y % 400 = 0)

DaysInMonth(y, m) ==
  IF m = 2 THEN (IF IsLeap(y) THEN 29 ELSE 28)
  ELSE IF m \in {4, 6, 9, 11} THEN 30
  ELSE 31

NoDate == [ok |-> FALSE, y |-> 0, m |-> 0, d |-> 0]

\* datetime.datetime.strptime(t, "%Y-%m-%d").date(): ok is FALSE where Python
\* raises ValueError (no match, unconverted data, year 0, day out of range).
Strptime(t) ==
  LET ml == MonthLen(t)
      dl == DayLen(t, 7 + ml)
      y == IntOf(t, 1, 4)
      m == IntOf(t, 6, 5 + ml)
      d == IntOf(t, 7 + ml, 6 + ml + dl)
  IN IF /\ \A i \in 1..4 : At(t, i) \in Digits
        /\ At(t, 5) = "-"
        /\ ml > 0
        /\ Len(t) = 6 + ml + dl
        /\ y >= 1
        /\ d <= DaysInMonth(y, m)
     THEN [ok |-> TRUE, y |-> y, m |-> m, d |-> d]
     ELSE NoDate

\* datetime.date comparison a <= b.
DateLE(a, b) ==
  \/ a.y < b.y
  \/ a.y = b.y /\ a.m < b.m
  \/ a.y = b.y /\ a.m = b.m /\ a.d <= b.d

MkDate(y, m, d) == [ok |-> TRUE, y |-> y, m |-> m, d |-> d]


\* ----------------------------------------------------- request-line pattern
\* The seven atoms of the pattern's tail ` HTTP/1\.\d"` start at position j.
IsProtoAt(line, j) ==
  /\ At(line, j) = " "
  /\ At(line, j + 1) = "HTTP"
  /\ At(line, j + 2) = "/"
  /\ At(line, j + 3) = "1"
  /\ At(line, j + 4) = "."
  /\ At(line, j + 5) \in Digits
  /\ At(line, j + 6) = "\""

\* The pattern's head `"(?:GET|POST) ` starts at position i.
IsVerbAt(line, i) ==
  /\ At(line, i) = "\""
  /\ At(line, i + 1) \in {"GET", "POST"}
  /\ At(line, i + 2) = " "

\* Where the tail can follow a head at i; the lazy group (.*?) may be empty.
ProtoAfter(line, i) == {j \in (i + 3)..Len(line) : IsProtoAt(line, j)}

MatchStarts(line) == {i \in 1..Len(line) : IsVerbAt(line, i) /\ ProtoAfter(line, i) # {}}

\* re.search(r'"(?:GET|POST) (.*?) HTTP/1\.\d"', line): ok and group(1), taken at
\* the leftmost start and, from there, the nearest tail.
ReSearch(line) ==
  LET starts == MatchStarts(line) IN
  IF starts = {} THEN [ok |-> FALSE, group |-> <<>>]
  ELSE LET i == CHOOSE x \in starts : \A y \in starts : x <= y
           ends == ProtoAfter(line, i)
           j == CHOOSE x \in ends : \A y \in ends : x <= y
       IN [ok |-> TRUE, group |-> SubSeq(line, i + 3, j - 1)]

\* seg = m.group(1).split("/")[-1].split("?")[0]
ReportToken(group) == Split(Last(Split(group, "/")), "?")[1]

\* ----------------------------------------------------------- the FrequencyTable
\* counts is a Python dict: here the sequence of its <<key, value>> items in
\* insertion order.
DictHas(counts, seg) == \E i \in 1..Len(counts) : counts[i][1] = seg

\* counts.get(seg, 0)
DictGet(counts, seg) ==
  IF DictHas(counts, seg)
  THEN counts[CHOOSE i \in 1..Len(counts) : counts[i][1] = seg][2]
  ELSE 0

\* counts[seg] = value: an existing key keeps its position, a new one goes last.
DictSet(counts, seg, value) ==
  IF DictHas(counts, seg)
  THEN [i \in 1..Len(counts) |->
          IF counts[i][1] = seg THEN <<seg, value>> ELSE counts[i]]
  ELSE Append(counts, <<seg, value>>)

\* The count set to 1 on every occurrence, the .get forgotten.
IncrementOnce(counts, seg) == DictSet(counts, seg, 1)

\* counts[seg] = counts.get(seg, 0) + 1
Increment(counts, seg) == DictSet(counts, seg, DictGet(counts, seg) + 1)

\* What lines 107-110 compute from one line: whether the pattern matches, and seg.
LineMatch(line) ==
  LET m == ReSearch(line) IN
  [ok |-> m.ok, seg |-> IF m.ok THEN ReportToken(m.group) ELSE <<>>]

\* One pass of the loop over body.splitlines(), for a line whose match is m: a
\* line without a match is skipped.
TallyLine(counts, m) ==
  IF ~m.ok THEN counts ELSE Increment(counts, m.seg)

RECURSIVE TallyLines(_, _)
TallyLines(counts, matches) ==
  IF matches = <<>> THEN counts
  ELSE TallyLines(TallyLine(counts, Head(matches)), Tail(matches))

\* The dict started afresh for every object.
TallyBodyFresh(counts, matches) == TallyLines(<<>>, matches)

\* Lines 106-111: the loop over the lines of one object's text, adding to the
\* run's dict.
TallyBody(counts, matches) == TallyLines(counts, matches)


\* sort_values("Calls", ascending=False) of the frame built from counts: the rows
\* in non-increasing order of count.  pandas sorts with kind="quicksort", which
\* promises no order among equal counts, so every such order is an outcome.
IsDescending(rows) == \A i \in 1..(Len(rows) - 1) : rows[i][2] >= rows[i + 1][2]

SortValues(counts) ==
  LET n == Len(counts)
      perms == {p \in [1..n -> 1..n] : \A i, j \in 1..n : p[i] = p[j] => i = j}
  IN {rows \in {[i \in 1..n |-> counts[p[i]]] : p \in perms} : IsDescending(rows)}

\* df.head(top_n)
Head_n(rows, top_n) == SubSeq(rows, 1, top_n)

\* ------------------------------------------------------------ key filters
All == <<"All">>

\* date_str = key.rsplit(".", 2)[1]; ok is FALSE where the index raises.
DateStr(key) ==
  LET pieces == RSplit(key, ".", 2) IN
  IF Len(pieces) >= 2 THEN [ok |-> TRUE, token |-> pieces[2]]
  ELSE [ok |-> FALSE, token |-> <<>>]

\* The try block of the filename date filter: strptime of the token, any
\* exception caught.
LogDate(key) ==
  LET ds == DateStr(key) IN
  IF ds.ok THEN Strptime(ds.token) ELSE NoDate

\* The range test with its ends left out.
InRangeExclusive(start_date, log_date, end_date) ==
  /\ DateLE(start_date, log_date) /\ start_date # log_date
  /\ DateLE(log_date, end_date) /\ end_date # log_date

\* start_date <= log_date <= end_date
InRange(start_date, log_date, end_date) ==
  DateLE(start_date, log_date) /\ DateLE(log_date, end_date)

\* parts = key.split("/")
Parts(key) == Split(key, "/")

\* The customer comparison made without regard to case.
Lower(atom) == IF atom = "Acme" THEN "acme" ELSE atom

CustomerMismatchNoCase(parts, c) ==
  [i \in 1..Len(parts[3]) |-> Lower(parts[3][i])] # [i \in 1..Len(c) |-> Lower(c[i])]

\* The customer comparison made on the second segment.
CustomerMismatchSecond(parts, c) == parts[2] # c

\* parts[2] != cust, on a key of at least three segments.
CustomerMismatch(parts, c) == parts[3] # c

\* The decision of one pass of the object loop up to the fetch: the branch taken
\* at lines 82-98.  "IndexError" is parts[2] raised on a key of fewer than three
\* segments, outside any try block.
\* k holds what the pass computes from the key alone (see KeyFacts).
FilterKey(k, cust, start_date, end_date) ==
  IF ~k.ends_txt THEN "skip_ext"
  ELSE IF ~k.log_date.ok THEN "skip_date"
  ELSE IF ~InRange(start_date, k.log_date, end_date) THEN "skip_range"
  ELSE IF cust = All THEN "fetch"
  ELSE IF Len(k.parts) < 3 THEN "IndexError"
  ELSE IF CustomerMismatch(k.parts, cust) THEN "skip_cust"
  ELSE "fetch"

\* What a pass computes from the key alone.
KeyFacts(key) ==
  [ends_txt |-> EndsWithTxt(key),
   date_str |-> IF EndsWithTxt(key) THEN DateStr(key).token ELSE <<>>,
   log_date |-> LogDate(key),
   parts |-> Parts(key)]


\* ------------------------------------------------------- the object store
\* Calendar dates written as their atoms.
D_2025_04_20 == <<"2", "0", "2", "5", "-", "0", "4", "-", "2", "0">>
D_2025_04_25 == <<"2", "0", "2", "5", "-", "0", "4", "-", "2", "5">>
D_2025_04_26 == <<"2", "0", "2", "5", "-", "0", "4", "-", "2", "6">>
D_2025_04_27 == <<"2", "0", "2", "5", "-", "0", "4", "-", "2", "7">>
D_2025_4_26 == <<"2", "0", "2", "5", "-", "4", "-", "2", "6">>
D_2025_02_30 == <<"2", "0", "2", "5", "-", "0", "2", "-", "3", "0">>
D_20250426 == <<"2", "0", "2", "5", "0", "4", "2", "6">>

\* A key from its path segments, and a file name from its dot-separated parts.
Path(segs) == Join(segs, "/")
FileName(parts) == Join(parts, ".")

\* An access-log line with a quoted request line.
Req(verb, target, minor) ==
  <<"client", " ", "\"", verb, " ">> \o target
    \o <<" ", "HTTP", "/", "1", ".", minor, "\"", " ", "2", "0", "0">>

T_summary == <<"/", "reports", "/", "summary">>
T_summary_q == <<"/", "api", "/", "reports", "/", "summary", "?", "page", "=", "2">>
T_daily_q == <<"/", "api", "/", "reports", "/", "daily", "?", "x", "=", "1">>
T_weekly == <<"/", "weekly">>

\* Lines the pattern does not match: another verb, another protocol, no request.
L_put == Req("PUT", T_daily_q, "1")
L_http2 == <<"client", " ", "\"", "GET", " ">> \o T_daily_q
             \o <<" ", "HTTP", "/", "2", ".", "0", "\"">>
L_text == <<"server", " ", "started">>

Obj(key, utf8, lines) == [Key |-> key, Utf8 |-> utf8, Lines |-> lines]

\* The objects the store may hold under access_logs/: the key, whether the
\* bytes decode as UTF-8, and the lines of the decoded text.
Catalogue == <<
  \* 1, 2: the two keys of the end-to-end scenario (customer directory second)
  Obj(Path(<< <<"access_logs">>, <<"acme">>,
              FileName(<< <<"host">>, D_2025_04_20, <<"txt">> >>) >>),
      TRUE, <<Req("GET", T_weekly, "1")>>),
  Obj(Path(<< <<"access_logs">>, <<"acme">>,
              FileName(<< <<"host">>, D_2025_04_26, <<"txt">> >>) >>),
      TRUE, <<Req("GET", T_summary, "1"), Req("POST", T_summary_q, "0"),
              Req("GET", T_daily_q, "1")>>),
  \* 3, 4, 5: customer as the third segment, in two spellings, and another one
  Obj(Path(<< <<"access_logs">>, <<"us">>, <<"acme">>,
              FileName(<< <<"host">>, D_2025_04_26, <<"txt">> >>) >>),
      TRUE, <<Req("GET", T_daily_q, "1"), L_text>>),
  Obj(Path(<< <<"access_logs">>, <<"us">>, <<"Acme">>,
              FileName(<< <<"host">>, D_2025_04_26, <<"txt">> >>) >>),
      TRUE, <<Req("POST", T_summary, "1")>>),
  Obj(Path(<< <<"access_logs">>, <<"us">>, <<"globex">>,
              FileName(<< <<"host">>, D_2025_04_25, <<"txt">> >>) >>),
      TRUE, <<Req("GET", T_summary, "1"), L_put, Req("GET", T_daily_q, "1"),
              Req("GET", T_summary_q, "1")>>),
  \* 6: a key of two segments
  Obj(Path(<< <<"access_logs">>,
              FileName(<< <<"host">>, D_2025_04_26, <<"txt">> >>) >>),
      TRUE, <<Req("GET", T_daily_q, "1")>>),
  \* 7, 8, 9: month without its zero, a day the month lacks, no separators
  Obj(Path(<< <<"access_logs">>, <<"us">>, <<"acme">>,
              FileName(<< <<"host">>, D_2025_4_26, <<"txt">> >>) >>),
      TRUE, <<Req("GET", T_daily_q, "1")>>),
  Obj(Path(<< <<"access_logs">>, <<"us">>, <<"acme">>,
              FileName(<< <<"host">>, D_2025_02_30, <<"txt">> >>) >>),
      TRUE, <<Req("GET", T_daily_q, "1")>>),
  Obj(Path(<< <<"access_logs">>, <<"us">>, <<"acme">>,
              FileName(<< <<"host">>, D_20250426, <<"txt">> >>) >>),
      TRUE, <<Req("GET", T_daily_q, "1")>>),
  \* 10, 11: a file name with one dot, alone and below a directory with a dot
  Obj(Path(<< <<"access_logs">>, <<"us">>, <<"acme">>,
              FileName(<< D_2025_04_26, <<"txt">> >>) >>),
      TRUE, <<Req("GET", T_daily_q, "1")>>),
  Obj(Path(<< <<"access_logs">>, <<"v", "1", ".", "2">>, <<"acme">>,
              FileName(<< <<"host">>, <<"txt">> >>) >>),
      TRUE, <<Req("GET", T_daily_q, "1")>>),
  \* 12: a directory with a dot above a file name with two
  Obj(Path(<< <<"access_logs">>, <<"v", "1", ".", "2">>, <<"acme">>,
              FileName(<< <<"host">>, D_2025_04_26, <<"txt">> >>) >>),
      TRUE, <<Req("GET", T_summary, "1")>>),
  \* 13: another extension
  Obj(Path(<< <<"access_logs">>, <<"us">>, <<"acme">>,
              FileName(<< <<"host">>, D_2025_04_26, <<"log">> >>) >>),
      TRUE, <<Req("GET", T_daily_q, "1")>>),
  \* 14: bytes that are not UTF-8
  Obj(Path(<< <<"access_logs">>, <<"us">>, <<"acme">>,
              FileName(<< <<"bad">>, D_2025_04_26, <<"txt">> >>) >>),
      FALSE, <<>>),
  \* 15: text without a request line
  Obj(Path(<< <<"access_logs">>, <<"us">>, <<"acme">>,
              FileName(<< <<"quiet">>, D_2025_04_27, <<"txt">> >>) >>),
      TRUE, <<L_text, L_http2, L_put>>)
>>

ObjectIds == 1..Len(Catalogue)

KeyOf(o) == Catalogue[o].Key

\* What the script computes from each object's key and from each line of its
\* text, worked out once per object: none of it depends on the run.
Keys == [o \in ObjectIds |-> KeyFacts(KeyOf(o))]

Matches ==
  [o \in ObjectIds |->
     [k \in 1..Len(Catalogue[o].Lines) |-> LineMatch(Catalogue[o].Lines[k])]]

\* The dates the date-range widget is set to.
Dates == {MkDate(2025, 4, 25), MkDate(2025, 4, 26), MkDate(2025, 4, 27)}

\* fetch_customer_list: the third segment of every listed key that has one.
\* (The selector shows them sorted; the order of its entries decides nothing.)
fetch_customer_list(objects) ==
  {Keys[o].parts[3] : o \in {x \in objects : Len(Keys[x].parts) > 2}}


\* ------------------------------------------------------------------ state
VARIABLES
  bucket,          \* the ids of the objects the store holds under access_logs/
  customers,       \* the cached value of fetch_customer_list
  budget,          \* Analyze presses this behaviour may still make
  runs,            \* Analyze presses made so far
  analysis_df,     \* st.session_state.analysis_df, or absent
  analysis_title,  \* st.session_state.analysis_title, or absent
  cust,            \* the customer selector's value in the Analyze run
  start_date,      \* the date range's ends in the Analyze run
  end_date,
  pc,              \* "idle": no script run; "list", "scan", "finish": inside Analyze
  unlisted,        \* the objects the paginator has not returned yet
  page,            \* the objects of the current page still to visit, in order
  counts,          \* the dict counts of the Analyze run
  log,             \* every object visited by the run, with the branch it took
  raised,          \* the exception that ended the run, "none" without one
  warned,          \* the run called st.warning("No entries found.")
  shown,           \* what the last script run drew below the title
  last             \* the frame and title the latest Analyze run stored, or absent

vars == <<bucket, customers, budget, runs, analysis_df, analysis_title, cust, start_date,
          end_date, pc, unlisted, page, counts, log, raised, warned, shown, last>>

NoFrame == [present |-> FALSE, rows |-> <<>>]
Frame(rows) == [present |-> TRUE, rows |-> rows]

NoTitle == [present |-> FALSE, cust |-> <<>>, start_date |-> NoDate, end_date |-> NoDate]
\* f"'{cust}' {start_date}-{end_date}"
Title(c, s, e) == [present |-> TRUE, cust |-> c, start_date |-> s, end_date |-> e]

NoLast == [present |-> FALSE, rows |-> <<>>, title |-> NoTitle]

Nothing == [present |-> FALSE, title |-> NoTitle, rows |-> <<>>]

\* The interactive results of lines 127-154: the chart and the table of the top
\* top_n rows, under the stored title.
Results(df, title, top_n) ==
  [present |-> TRUE, title |-> title, rows |-> Head_n(df.rows, top_n)]

\* What the store held when the customer list was cached, where that was not
\* the present content: st.cache_data keeps the first list for good.
StaleBuckets == {{3, 4, 5}}

Buckets(family) ==
  {b \in family : Cardinality(b) <= MaxObjects}

InitWith(family, presses) ==
  /\ bucket \in Buckets(family)
  /\ customers \in {fetch_customer_list(bucket)}
                     \cup {fetch_customer_list(b) : b \in StaleBuckets}
  /\ budget = presses
  /\ runs = 0
  /\ analysis_df = NoFrame
  /\ analysis_title = NoTitle
  /\ cust = All
  /\ start_date = MkDate(2025, 4, 25)
  /\ end_date = MkDate(2025, 4, 25)
  /\ pc = "idle"
  /\ unlisted = {}
  /\ page = <<>>
  /\ counts = <<>>
  /\ log = <<>>
  /\ raised = "none"
  /\ warned = FALSE
  /\ shown = Nothing
  /\ last = NoLast

\* ---------------------------------------------------------------- actions
\* A script run without the Analyze button: a widget changed, or the page was
\* opened.  Without credentials or a connection the script stops at line 48 or
\* 56; otherwise it skips the handler and draws the stored results.
Rerun ==
  /\ pc = "idle"
  /\ \E connected \in BOOLEAN :
       IF connected /\ analysis_df.present
       THEN \E top_n \in 1..Len(analysis_df.rows) :
              shown' = Results(analysis_df, analysis_title, top_n)
       ELSE shown' = Nothing
  /\ UNCHANGED <<bucket, customers, budget, runs, analysis_df, analysis_title, cust,
                 start_date, end_date, pc, unlisted, page, counts, log, raised,
                 warned, last>>

\* The stored frame left in place.
KeepAnalysisDf(df) == df

\* st.session_state.pop("analysis_df", None)
PopAnalysisDf(df) == NoFrame

\* Lines 73-77: the button is pressed with the widgets at c, s, e.
AnalyzeBegin ==
  /\ pc = "idle"
  /\ budget > 0
  /\ budget' = budget - 1
  /\ runs' = runs + 1
  /\ \E c \in {All} \cup customers, s \in Dates, e \in Dates :
       /\ DateLE(s, e)
       /\ cust' = c
       /\ start_date' = s
       /\ end_date' = e
  /\ analysis_df' = PopAnalysisDf(analysis_df)
  /\ counts' = <<>>
  /\ unlisted' = bucket
  /\ page' = <<>>
  /\ log' = <<>>
  /\ raised' = "none"
  /\ warned' = FALSE
  /\ shown' = Nothing
  /\ last' = NoLast
  /\ pc' = "list"
  /\ UNCHANGED <<bucket, customers, analysis_title>>

\* The orders in which a page can return the objects of set.
Orders(set) ==
  LET n == Cardinality(set) IN
  {q \in [1..n -> set] : \A i, j \in 1..n : q[i] = q[j] => i = j}

PageSets ==
  LET n == IF Cardinality(unlisted) < PageSize THEN Cardinality(unlisted) ELSE PageSize
  IN {p \in SUBSET unlisted : Cardinality(p) = n}

\* Where the run goes after a page's last object.
AfterPage(left) == IF left = {} THEN "finish" ELSE "list"

\* Line 79: the paginator fetches the next page; the store returns the keys in
\* whatever order it likes.
ListPage ==
  /\ pc = "list"
  /\ \E p \in PageSets : \E q \in Orders(p) :
       /\ page' = q
       /\ unlisted' = unlisted \ p
       /\ pc' = IF q = <<>> THEN AfterPage(unlisted \ p) ELSE "scan"
  /\ UNCHANGED <<bucket, customers, budget, runs, analysis_df, analysis_title, cust,
                 start_date, end_date, counts, log, raised, warned, shown, last>>

\* The page fetch's exception taken for the end of the listing.
OnListErrorSwallowed == "finish"

\* Where an exception of the page fetch takes the run: no handler, so the
\* script run ends where it is.
OnListError == "idle"

\* Line 79: the page fetch raises ClientError.
ListPageFails ==
  /\ pc = "list"
  /\ raised' = "ClientError"
  /\ pc' = OnListError
  /\ UNCHANGED <<bucket, customers, budget, runs, analysis_df, analysis_title, cust,
                 start_date, end_date, unlisted, page, counts, log, warned, shown,
                 last>>


\* What s3.get_object(...)["Body"].read() can do for one object.
GetObjectOutcomes == {"ok", "ClientError"}

\* The exceptions `except ClientError` at line 104 catches, by name.
CaughtByFetch == {"ClientError"}

\* The try block of lines 101-105 for an object whose fetch does `access`: the
\* name of the exception it lets through, "caught" for one it handles, "none".
FetchAndDecode(o, access) ==
  LET exc == IF access # "ok" THEN access
             ELSE IF ~Catalogue[o].Utf8 THEN "UnicodeDecodeError"
             ELSE "none"
  IN IF exc \in CaughtByFetch THEN "caught" ELSE exc

\* The branch one pass of the object loop (lines 81-111) takes for object o.
Disposition(o, access) ==
  LET f == FilterKey(Keys[o], cust, start_date, end_date) IN
  IF f # "fetch" THEN f
  ELSE LET r == FetchAndDecode(o, access) IN
       IF r = "caught" THEN "skip_access"
       ELSE IF r = "none" THEN "counted"
       ELSE r

\* The branches that leave the loop by an exception no handler catches.
Uncaught == {"IndexError", "UnicodeDecodeError"}

\* The record of one pass: the object, the date token the pass parsed (none for
\* a key it dropped by its extension) and the branch taken.
Visit(o, disp) ==
  [obj |-> o,
   token |-> Keys[o].date_str,
   disp |-> disp]

\* Lines 80-111: one pass of the loop over the page's objects.
ScanObject ==
  /\ pc = "scan"
  /\ \E access \in GetObjectOutcomes :
       LET o == Head(page)
           disp == Disposition(o, access)
       IN /\ log' = Append(log, Visit(o, disp))
          /\ IF disp \in Uncaught
             THEN /\ raised' = disp
                  /\ pc' = "idle"
                  /\ UNCHANGED <<page, counts>>
             ELSE /\ counts' = IF disp = "counted"
                               THEN TallyBody(counts, Matches[o])
                               ELSE counts
                  /\ page' = Tail(page)
                  /\ pc' = IF Tail(page) = <<>> THEN AfterPage(unlisted) ELSE "scan"
                  /\ UNCHANGED raised
  /\ UNCHANGED <<bucket, customers, budget, runs, analysis_df, analysis_title, cust,
                 start_date, end_date, unlisted, warned, shown, last>>

\* Lines 113-154: the listing is exhausted.  An empty dict warns; otherwise the
\* sorted frame and the title are stored and the results drawn.
AnalyzeEnd ==
  /\ pc = "finish"
  /\ pc' = "idle"
  /\ IF counts = <<>>
     THEN /\ warned' = TRUE
          /\ shown' = Nothing
          /\ UNCHANGED <<analysis_df, analysis_title, last>>
     ELSE \E rows \in SortValues(counts) : \E top_n \in 1..Len(rows) :
            /\ analysis_df' = Frame(rows)
            /\ analysis_title' = Title(cust, start_date, end_date)
            /\ last' = [present |-> TRUE, rows |-> rows,
                        title |-> Title(cust, start_date, end_date)]
            /\ shown' = Results(Frame(rows), Title(cust, start_date, end_date), top_n)
            /\ UNCHANGED warned
  /\ UNCHANGED <<bucket, customers, budget, runs, cust, start_date, end_date, unlisted,
                 page, counts, log, raised>>

Next ==
  \/ Rerun
  \/ AnalyzeBegin
  \/ ListPage
  \/ ListPageFails
  \/ ScanObject
  \/ AnalyzeEnd

\* ----------------------------------------------------------- specifications
\* One Analyze run over any store of at most MaxObjects objects.
Init == InitWith(SUBSET ObjectIds, 1)

Spec == Init /\ [][Next]_vars

\* The store of the end-to-end scenario: objects 1 and 2.
InitE2E == InitWith({{1, 2}}, 1)

SpecE2E == InitE2E /\ [][Next]_vars

\* Up to MaxRuns Analyze runs in one session.
InitSession == InitWith({{2}, {5}, {15}, {6}}, MaxRuns)

SpecSession == InitSession /\ [][Next]_vars


\* ------------------------------------------------------------------ claims
\* The passes of the running or latest Analyze run.
Visits == 1..Len(log)

\* The pass got beyond the date filter (lines 82-93).
PassedDate(e) == e.disp \notin {"skip_ext", "skip_date", "skip_range"}

\* The pass got beyond the customer filter: the object was asked of the store.
Included(e) == e.disp \in {"counted", "skip_access", "UnicodeDecodeError"}

\* An Analyze run has ended without an exception.
Completed == pc = "idle" /\ runs > 0 /\ raised = "none"

\* A calendar date, and a number that orders calendar dates.
IsCalendar(y, m, d) == y >= 1 /\ m \in 1..12 /\ d \in 1..DaysInMonth(y, m)
Ord(y, m, d) == 372 * y + 31 * m + d
Within(y, m, d) ==
  /\ Ord(start_date.y, start_date.m, start_date.d) <= Ord(y, m, d)
  /\ Ord(y, m, d) <= Ord(end_date.y, end_date.m, end_date.d)

\* t is written YYYY-MM-DD: ten atoms, digits but for the two hyphens.
IsoShape(t) ==
  /\ Len(t) = 10
  /\ \A i \in {1, 2, 3, 4, 6, 7, 9, 10} : t[i] \in Digits
  /\ t[5] = "-"
  /\ t[8] = "-"

\* t is a YYYY-MM-DD calendar date within the requested range.
IsoDateWithin(t) ==
  /\ IsoShape(t)
  /\ IsCalendar(IntOf(t, 1, 4), IntOf(t, 6, 7), IntOf(t, 9, 10))
  /\ Within(IntOf(t, 1, 4), IntOf(t, 6, 7), IntOf(t, 9, 10))

IsoDate(t) ==
  IsoShape(t) /\ IsCalendar(IntOf(t, 1, 4), IntOf(t, 6, 7), IntOf(t, 9, 10))

\* t is a date as strptime's %Y-%m-%d reads one: a year of four digits, a month
\* of ml digits and a day of dl atoms, either digits or a space and a digit.
LooseShape(t, ml, dl) ==
  /\ Len(t) = 6 + ml + dl
  /\ \A i \in 1..4 : t[i] \in Digits
  /\ t[5] = "-"
  /\ \A i \in 6..(5 + ml) : t[i] \in Digits
  /\ t[6 + ml] = "-"
  /\ t[Len(t)] \in Digits
  /\ dl = 2 => t[7 + ml] \in Digits \cup {" "}

LooseDate(t) ==
  \E ml \in {1, 2}, dl \in {1, 2} :
    /\ LooseShape(t, ml, dl)
    /\ IsCalendar(IntOf(t, 1, 4), IntOf(t, 6, 5 + ml), IntOf(t, 7 + ml, Len(t)))

LooseDateWithin(t) ==
  \E ml \in {1, 2}, dl \in {1, 2} :
    /\ LooseShape(t, ml, dl)
    /\ IsCalendar(IntOf(t, 1, 4), IntOf(t, 6, 5 + ml), IntOf(t, 7 + ml, Len(t)))
    /\ Within(IntOf(t, 1, 4), IntOf(t, 6, 5 + ml), IntOf(t, 7 + ml, Len(t)))

\* C1 as stated: a visited .txt key passes the date filter exactly if its date
\* token is a YYYY-MM-DD calendar date with start_date <= date <= end_date, and
\* a token that is no such date is skipped, its pass raising nothing.
C1_Original ==
  \A i \in Visits :
    Keys[log[i].obj].ends_txt =>
      /\ PassedDate(log[i]) <=> IsoDateWithin(log[i].token)
      /\ ~IsoDate(log[i].token) =>
           ~PassedDate(log[i]) /\ (i = Len(log) => raised \notin Uncaught)

\* C1 as amended: a visited .txt key passes the date filter exactly if its date
\* token is a calendar date as %Y-%m-%d reads it (month and day of one or two
\* digits) with start_date <= date <= end_date, both ends included; a token that
\* is no such date is skipped, its pass raising nothing.
C1_DateFilter ==
  \A i \in Visits :
    Keys[log[i].obj].ends_txt =>
      /\ PassedDate(log[i]) <=> LooseDateWithin(log[i].token)
      /\ ~LooseDate(log[i].token) =>
           ~PassedDate(log[i]) /\ (i = Len(log) => raised \notin Uncaught)

\* A run whose range is more than a day let one object dated start_date and one
\* dated end_date through the date filter: both ends are included.
C1_Witness ==
  /\ Completed
  /\ start_date # end_date
  /\ \E i, j \in Visits :
       /\ PassedDate(log[i]) /\ Strptime(log[i].token) = start_date
       /\ PassedDate(log[j]) /\ Strptime(log[j].token) = end_date

\* The second-to-last dot-delimited segment of the key's file name.
RefDateToken(key) ==
  LET segs == Split(Last(Split(key, "/")), ".") IN segs[Len(segs) - 1]

\* C10 as stated: for every visited .txt key, the date token the scan parses is
\* the second-to-last dot-delimited segment of the file name.
C10_Claim ==
  \A i \in Visits :
    Keys[log[i].obj].ends_txt => log[i].token = RefDateToken(KeyOf(log[i].obj))


\* The "/"-separated segments of every key.
Segments == [o \in ObjectIds |-> Split(KeyOf(o), "/")]

\* C2: of the objects that passed the date filter, a run for a specific customer
\* includes only those whose third path segment is that customer, atom for atom,
\* and a run for "All" includes every one, whatever its segments.
C2_CustomerFilter ==
  \A i \in Visits :
    PassedDate(log[i]) =>
      LET segs == Segments[log[i].obj] IN
      /\ (cust # All /\ Included(log[i])) => (Len(segs) >= 3 /\ segs[3] = cust)
      /\ cust = All => Included(log[i])

\* A run for "acme" included an object of acme and dropped one of "Acme".
C2_Witness ==
  /\ Completed
  /\ cust = <<"acme">>
  /\ \E i, j \in Visits :
       /\ Included(log[i])
       /\ log[j].disp = "skip_cust" /\ Segments[log[j].obj][3] = <<"Acme">>

\* The same for "All": a key of two segments was included.
C2_WitnessAll ==
  /\ Completed
  /\ cust = All
  /\ \E i \in Visits : Included(log[i]) /\ Len(Segments[log[i].obj]) < 3

\* C3 as stated: in a run for a specific customer, a key of fewer than three
\* segments that passed the date filter counts as a customer mismatch; its pass
\* raises nothing and the scan goes on.
C3_Claim ==
  \A i \in Visits :
    (cust # All /\ PassedDate(log[i]) /\ Len(Segments[log[i].obj]) < 3) =>
      /\ log[i].disp = "skip_cust"
      /\ i = Len(log) => raised \notin Uncaught

\* The object's bytes are not UTF-8, or its fetch was refused.
FetchFailed(e) == Included(e) /\ e.disp # "counted"

\* C4 as stated: an object whose fetch raises an access error, or whose bytes do
\* not decode, is skipped alone: its pass raises nothing out of the loop, so the
\* counts stay and the later objects are visited.
C4_Claim ==
  \A i \in Visits :
    FetchFailed(log[i]) =>
      /\ log[i].disp \notin Uncaught
      /\ i = Len(log) => raised \notin Uncaught

\* C5: "No entries found." is emitted exactly by a run whose listing and scan
\* ended without an exception and left counts empty; then no frame is stored and
\* no results are drawn.  A failed page fetch ends the run on its exception,
\* without the warning.
C5_Outcome ==
  /\ warned <=> (Completed /\ counts = <<>>)
  /\ warned => (~analysis_df.present /\ ~shown.present)
  /\ raised = "ClientError" => (pc = "idle" /\ ~warned /\ ~analysis_df.present)

\* A run that counted an object without one request line ended on the warning.
C5_Witness ==
  /\ warned
  /\ \E i \in Visits : log[i].disp = "counted"


\* The objects whose text the run tallied.
CountedObjs == {log[i].obj : i \in {k \in Visits : log[k].disp = "counted"}}

\* Every line of the store with a request line, as <<object, line number, token>>.
RequestLines ==
  UNION {{<<o, k, ReportToken(ReSearch(Catalogue[o].Lines[k]).group)>> :
            k \in {j \in 1..Len(Catalogue[o].Lines) : ReSearch(Catalogue[o].Lines[j]).ok}} :
         o \in ObjectIds}

\* Every line, of a tallied object, whose token is t.
Occurrences(t) == {r \in RequestLines : r[1] \in CountedObjs /\ r[3] = t}

\* Every token a line of the store can yield, and every key of counts.
Tokens == {r[3] : r \in RequestLines} \cup {counts[i][1] : i \in 1..Len(counts)}

\* C6: after a completed scan the count of every token is the number of
\* matching lines, over the tallied objects, with that token, and is at least 1
\* where stored; the ranked frame holds every token of the dict once, with that
\* count, in non-increasing order of count.
C6_Tally ==
  Completed =>
    /\ \A i, j \in 1..Len(counts) : counts[i][1] = counts[j][1] => i = j
    /\ \A i \in 1..Len(counts) : counts[i][2] >= 1
    /\ \A t \in Tokens : DictGet(counts, t) = Cardinality(Occurrences(t))
    /\ analysis_df.present <=> counts # <<>>
    /\ analysis_df.present =>
         /\ Len(analysis_df.rows) = Len(counts)
         /\ \A i \in 1..Len(counts) :
              Cardinality({j \in 1..Len(counts) :
                             analysis_df.rows[j][1] = counts[i][1]}) = 1
         /\ \A j \in 1..Len(counts) :
              analysis_df.rows[j][2] = DictGet(counts, analysis_df.rows[j][1])
         /\ \A j \in 1..(Len(counts) - 1) :
              analysis_df.rows[j][2] >= analysis_df.rows[j + 1][2]

\* Two objects were tallied into two tokens, one of them counted four times.
C6_Witness ==
  /\ Completed
  /\ Cardinality(CountedObjs) >= 2
  /\ Len(analysis_df.rows) >= 2
  /\ analysis_df.rows[1][2] >= 4

\* The dict of a scan that tallies objs in ascending order of id.
RECURSIVE RefFold(_, _)
RefFold(objs, acc) ==
  IF objs = {} THEN acc
  ELSE LET o == CHOOSE x \in objs : \A y \in objs : x <= y
       IN RefFold(objs \ {o}, TallyLines(acc, Matches[o]))

RefTable == RefFold(CountedObjs, <<>>)

\* The ranking that keeps tokens of equal count in the dict's order.
StableRank(c) ==
  CHOOSE rows \in SortValues(c) :
    \A i, j \in 1..Len(rows) :
      (i < j /\ rows[i][2] = rows[j][2]) =>
        \E a, b \in 1..Len(c) : a < b /\ c[a] = rows[i] /\ c[b] = rows[j]

Items(c) == {c[i] : i \in 1..Len(c)}

\* C7 as stated, with the sort at its most favourable: whatever the listing
\* order, the final dict has the tokens and counts of the same objects tallied in
\* ascending order, and a ranked frame that keeps equal counts in the order of
\* its own dict is the very sequence ranked from the ascending tally, tokens of
\* equal count in the same relative order.
C7_Original ==
  Completed =>
    /\ Items(counts) = Items(RefTable)
    /\ (analysis_df.present /\ analysis_df.rows = StableRank(counts)) =>
         analysis_df.rows = StableRank(RefTable)

\* C7 as amended: whatever the listing order, the final dict has the same tokens
\* and counts, and the ranked frame has the same rows and the same sequence of
\* counts; only the order of tokens of equal count may differ.
C7_OrderIndependent ==
  Completed =>
    /\ Items(counts) = Items(RefTable)
    /\ analysis_df.present =>
         /\ Items(analysis_df.rows) = Items(StableRank(RefTable))
         /\ Len(analysis_df.rows) = Len(RefTable)
         /\ \A i \in 1..Len(RefTable) :
              analysis_df.rows[i][2] = StableRank(RefTable)[i][2]

\* Two objects with tokens were tallied in descending order of id.
C7_Witness ==
  /\ Completed
  /\ Len(analysis_df.rows) >= 2
  /\ \E i, j \in Visits :
       /\ i < j /\ log[i].obj > log[j].obj
       /\ log[i].disp = "counted" /\ log[j].disp = "counted"
       /\ Catalogue[log[i].obj].Lines # <<>> /\ Catalogue[log[j].obj].Lines # <<>>

\* The ranked result of the end-to-end scenario.
Expected == << << <<"summary">>, 2 >>, << <<"daily">>, 1 >> >>

\* A completed run over objects 1 and 2 for customer c, 2025-04-25 to
\* 2025-04-27, every fetch answered.
Scenario(c) ==
  /\ Completed
  /\ bucket = {1, 2}
  /\ cust = c
  /\ start_date = MkDate(2025, 4, 25)
  /\ end_date = MkDate(2025, 4, 27)
  /\ \A i \in Visits : log[i].disp # "skip_access"

\* C8 as stated: the scenario for customer "acme" stores the expected ranking,
\* the first object adding nothing.
C8_Original ==
  Scenario(<<"acme">>) =>
    /\ analysis_df = Frame(Expected)
    /\ 1 \notin CountedObjs

\* C8 as amended: the scenario for "All" stores the expected ranking, the first
\* object dropped by the date filter; for "acme" both keys have the file name as
\* their third segment, no object is fetched and the run ends on the warning.
C8_Scenario ==
  /\ Scenario(All) =>
       /\ analysis_df = Frame(Expected)
       /\ analysis_title = Title(All, MkDate(2025, 4, 25), MkDate(2025, 4, 27))
       /\ CountedObjs = {2}
       /\ \A i \in Visits : log[i].obj = 1 => log[i].disp = "skip_range"
  /\ Scenario(<<"acme">>) =>
       /\ warned
       /\ ~analysis_df.present
       /\ \A i \in Visits : ~Included(log[i])

C8_Witness ==
  /\ Scenario(All)
  /\ Len(log) = 2
  /\ analysis_df = Frame(Expected)

\* The same run for "acme" ended on the warning.
C8_WitnessAcme == Scenario(<<"acme">>) /\ Len(log) = 2 /\ warned

\* C9 as stated: session state holds the frame and the title the latest Analyze
\* run stored, and neither if that run stored none.
C9_Original ==
  pc = "idle" =>
    /\ analysis_df.present = last.present
    /\ analysis_title.present = last.present
    /\ last.present => (analysis_df.rows = last.rows /\ analysis_title = last.title)

\* C9 as amended: session state holds a frame exactly if the latest Analyze run
\* stored one, then that frame under that run's title; what a script run draws
\* is the head of that frame under that title.  (The title of an earlier run may
\* stay behind a run that stored nothing; it is read only beside a frame.)
C9_Session ==
  /\ analysis_df.present = last.present
  /\ last.present => (analysis_df.rows = last.rows /\ analysis_title = last.title)
  /\ shown.present =>
       /\ last.present
       /\ shown.title = last.title
       /\ shown.rows = SubSeq(last.rows, 1, Len(shown.rows))

\* A second Analyze run stored nothing after a first one that stored a frame.
C9_Witness ==
  /\ pc = "idle"
  /\ runs = 2
  /\ ~analysis_df.present
  /\ analysis_title.present
  /\ ~shown.present


====
